---- MODULE Spec2Model ----
(***************************************************************************)
(* Model of mso_schema_template_bd.main(): the reconciliation of one       *)
(* Bridge Domain of a schema template against the remote controller.       *)
(*                                                                         *)
(* Python values are modelled as follows.  A dict is a function from its   *)
(* keys (strings) to its values, {} being the function of empty domain.    *)
(* A parameter that may be None is an option: the empty set for None, the  *)
(* singleton {v} for the value v.  mso.existing, which the code binds to   *)
(* a dict or to a list, is a tagged value (Dict / List).  A path           *)
(* '/templates/T/bds/N' is the sequence of its segments.                   *)
(***************************************************************************)
EXTENDS Integers, Sequences, FiniteSets, TLC

VARIABLES remote, before, pc, params, schema_obj, mso, payload, operation,
          requests, result, rerun, prev

vars == <<remote, before, pc, params, schema_obj, mso, payload, operation,
          requests, result, rerun, prev>>

----------------------------------------------------------------------------
(* Bounds *)

MaxInitBds == 1

----------------------------------------------------------------------------
(* Python values *)

None == {}

Some(v) == {v}

Val(o) == CHOOSE v \in o : TRUE

EmptyDict == [k \in {} |-> k]

Dict(d) == [isList |-> FALSE, dict |-> d, list |-> <<>>]

List(l) == [isList |-> TRUE, dict |-> EmptyDict, list |-> l]

Truthy(v) == IF v.isList THEN Len(v.list) > 0 ELSE DOMAIN v.dict # {}

Restrict(d, keys) == [k \in (DOMAIN d) \cap keys |-> d[k]]

RemoveAt(s, i) == [j \in 1..(Len(s) - 1) |-> IF j < i THEN s[j] ELSE s[j + 1]]

IndexOf(names, n) == CHOOSE i \in DOMAIN names :
                        /\ names[i] = n
                        /\ \A j \in DOMAIN names : names[j] = n => i <= j

Names(l) == [i \in DOMAIN l |-> l[i]["name"]]

InList(names, n) == \E i \in DOMAIN names : names[i] = n

----------------------------------------------------------------------------
(* The remote document *)

SchemaId == "id1"

VrfRefString(schema_id, template, name) ==
    <<"schemas", schema_id, "templates", template, "vrfs", name>>

BdNames == {"BD1", "BD2"}

Created(n) == [name |-> n, displayName |-> n,
               vrfRef |-> VrfRefString(SchemaId, "T1", "VRF1")]

InitObjects ==
    { Created(n) : n \in BdNames } \cup
    { [name |-> "BD2", displayName |-> "Web", l2Stretch |-> TRUE,
       vrfRef |-> VrfRefString(SchemaId, "T2", "VRF1")] }

InitBdLists ==
    { l \in UNION { [1..k -> InitObjects] :
                       k \in 0..MaxInitBds } :
        \A i, j \in DOMAIN l : l[i]["name"] = l[j]["name"] => i = j }

Document(bds) ==
    << [displayName |-> "S1", id |-> SchemaId,
        templates |-> << [name |-> "T1", bds |-> bds,
                          vrfs |-> <<[name |-> "VRF1"]>>],
                         [name |-> "T2", bds |-> <<>>,
                          vrfs |-> <<[name |-> "VRF1"]>>] >>] >>

Init0Remote == { Document(l) : l \in InitBdLists }

----------------------------------------------------------------------------
(* MSOModule (module_utils/network/aci/mso.py) and the transport *)

NewMso == [existing |-> Dict(EmptyDict), previous |-> Dict(EmptyDict),
           sent |-> EmptyDict, proposed |-> EmptyDict]

GetObj(doc, displayName) ==
    LET m == { i \in DOMAIN doc : doc[i].displayName = displayName }
    IN  IF m = {} THEN None
        ELSE Some(doc[CHOOSE i \in m : \A j \in m : i <= j])

MakeReference(doc, data, reftype, schema_id, template) ==
    IF data = None THEN [ok |-> TRUE, ref |-> None]
    ELSE
      LET d == Val(data)
          so == IF d.schema # None THEN GetObj(doc, Val(d.schema))
                ELSE { s \in { doc[i] : i \in DOMAIN doc } : s.id = schema_id }
          tn == IF d.template # None THEN Val(d.template) ELSE template
      IN  IF so = {} THEN [ok |-> FALSE, ref |-> None]
          ELSE
            LET s == Val(so)
                ts == { s.templates[i] : i \in DOMAIN s.templates }
                hit == { t \in ts : t.name = tn /\ InList(Names(t[reftype \o "s"]), d.name) }
            IN  IF hit = {} THEN [ok |-> FALSE, ref |-> None]
                ELSE [ok |-> TRUE, ref |-> Some(VrfRefString(s.id, tn, d.name))]

SubnetKeys == {"ip", "description", "scope", "shared", "noDefaultGateway"}

MakeSubnet(subnet) ==
    LET raw == [ip |-> subnet.ip, description |-> subnet.description,
                scope |-> subnet.scope, shared |-> subnet.shared,
                noDefaultGateway |-> subnet.no_default_gateway]
    IN  [k \in { k \in SubnetKeys : raw[k] # None } |-> Val(raw[k])]

MakeSubnets(data) ==
    IF data = None THEN [ok |-> TRUE, subnets |-> None]
    ELSE LET l == Val(data)
         IN  IF \E i \in DOMAIN l : l[i].ip = None
             THEN [ok |-> FALSE, subnets |-> None]
             ELSE [ok |-> TRUE,
                   subnets |-> Some([i \in DOMAIN l |-> MakeSubnet(l[i])])]

Sanitize(existing, updates, collate, unwanted) ==
    LET base == Restrict(existing, (DOMAIN existing) \ unwanted)
        set  == { k \in DOMAIN updates : updates[k] # None }
        drop == IF collate THEN {}
                ELSE { k \in DOMAIN updates :
                         \/ updates[k] = None
                         \/ k \in DOMAIN existing /\ updates[k] = {existing[k]} }
        keys == ((DOMAIN base) \ drop) \cup (set \ drop)
        sent == [k \in keys |-> IF k \in set THEN Val(updates[k]) ELSE base[k]]
    IN  [sent |-> sent,
         proposed |-> [k \in (DOMAIN base) \cup keys |->
                          IF k \in keys THEN sent[k] ELSE base[k]]]

ApplyOp(bds, op) ==
    LET target == op.path[4]
    IN  CASE op.op = "add" /\ target = "-" ->
               [ok |-> TRUE, bds |-> Append(bds, op.value)]
          [] op.op = "replace" /\ InList(Names(bds), target) ->
               [ok |-> TRUE,
                bds |-> [bds EXCEPT ![IndexOf(Names(bds), target)] = op.value]]
          [] op.op = "remove" /\ InList(Names(bds), target) ->
               [ok |-> TRUE, bds |-> RemoveAt(bds, IndexOf(Names(bds), target))]
          [] OTHER -> [ok |-> FALSE, bds |-> bds]

RECURSIVE ApplyOps(_, _)
ApplyOps(templates, ops) ==
    IF ops = <<>> THEN [ok |-> TRUE, templates |-> templates]
    ELSE
      LET op == Head(ops)
          tn == Names(templates)
      IN  IF ~(Len(op.path) = 4 /\ op.path[1] = "templates" /\ op.path[3] = "bds"
               /\ InList(tn, op.path[2]))
          THEN [ok |-> FALSE, templates |-> templates]
          ELSE
            LET ti == IndexOf(tn, op.path[2])
                r  == ApplyOp(templates[ti]["bds"], op)
            IN  IF ~r.ok THEN [ok |-> FALSE, templates |-> templates]
                ELSE ApplyOps([templates EXCEPT ![ti]["bds"] = r.bds], Tail(ops))

Request(doc, path, method, data) ==
    LET m == { i \in DOMAIN doc : doc[i].id = path[2] }
    IN  IF m = {} \/ method # "PATCH" THEN [ok |-> FALSE, doc |-> doc]
        ELSE
          LET i == CHOOSE i \in m : TRUE
              r == ApplyOps(doc[i].templates, data)
          IN  IF r.ok THEN [ok |-> TRUE, doc |-> [doc EXCEPT ![i].templates = r.templates]]
              ELSE [ok |-> FALSE, doc |-> doc]

ExitJson(state, m) ==
    [failed |-> FALSE, msg |-> "",
     changed |-> state \in {"absent", "present"} /\ m.previous # m.existing,
     previous |-> m.previous, current |-> m.existing]

FailJson(msg) ==
    [failed |-> TRUE, msg |-> msg, changed |-> FALSE,
     previous |-> Dict(EmptyDict), current |-> Dict(EmptyDict)]

NoResult == [failed |-> FALSE, msg |-> "not run", changed |-> FALSE,
             previous |-> Dict(EmptyDict), current |-> Dict(EmptyDict)]

----------------------------------------------------------------------------
(* module.params *)

StateArgs == {"absent", "present", "query"}

SchemaArgs == {"S1", "S9"}

TemplateArgs == {"T1", "T9"}

BdArgs == {None} \cup { Some(n) : n \in BdNames }

DisplayNameArgs == {None, Some("Web")}

FlagArgs == {None}

VrfArgs == { None,
             Some([name |-> "VRF1", schema |-> None, template |-> None]),
             Some([name |-> "VRF1", schema |-> None, template |-> Some("T2")]),
             Some([name |-> "VRF9", schema |-> None, template |-> None]),
             Some([name |-> "VRF1", schema |-> Some("S9"), template |-> None]) }

SubnetArg(ip) == [ip |-> ip, description |-> None, scope |-> Some("private"),
                  shared |-> None, no_default_gateway |-> None]

ValidSubnets == Some(<<SubnetArg(Some("10.0.0.1/24"))>>)

SubnetsArgs == { None, ValidSubnets, Some(<<SubnetArg(None)>>) }

Unset(p) == /\ p.display_name = None
            /\ p.vrf = None
            /\ p.subnets = None

Resolves(p) == p.schema = "S1" /\ p.template = "T1"

RequiredIf(p) ==
    /\ p.state = "absent" => p.bd # None
    /\ p.state = "present" => p.bd # None /\ p.vrf # None

Relevant(p) ==
    /\ ~Resolves(p) => p.bd \in {None, Some("BD1")}
    /\ ~Resolves(p) /\ p.state = "present" =>
           /\ p.display_name = None
           /\ p.subnets = None
           /\ p.vrf = Some([name |-> "VRF1", schema |-> None, template |-> None])
    /\ p.state # "present" => Unset(p)
    /\ p.subnets = ValidSubnets => p.bd = Some("BD1")

ParamSpace ==
    { p \in [schema : SchemaArgs, template : TemplateArgs, bd : BdArgs,
             display_name : DisplayNameArgs,
             intersite_bum_traffic : FlagArgs,
             optimize_wan_bandwidth : FlagArgs,
             layer2_stretch : FlagArgs,
             layer2_unknown_unicast : FlagArgs,
             layer3_multicast : FlagArgs,
             vrf : VrfArgs, subnets : SubnetsArgs,
             state : StateArgs, check_mode : BOOLEAN] :
        RequiredIf(p) /\ Relevant(p) }

----------------------------------------------------------------------------
(* main() *)

SchemaPath(schema_id) == <<"schemas", schema_id>>

TemplateIdx(so, template) == IndexOf(Names(so.templates), template)

TemplateBds(so, template) == so.templates[TemplateIdx(so, template)]["bds"]

FoundNever(so, template, bd) == FALSE

Found(so, template, bd) ==
    bd # None /\ InList(Names(TemplateBds(so, template)), Val(bd))

ExistingFirst(so, template, bd) ==
    LET objs == TemplateBds(so, template)
        bds  == Names(objs)
    IN  IF bd # None /\ InList(bds, Val(bd))
        THEN Dict(objs[1])
        ELSE Dict(EmptyDict)

Existing(so, template, bd) ==
    LET objs == TemplateBds(so, template)
        bds  == Names(objs)
    IN  IF bd # None /\ InList(bds, Val(bd))
        THEN Dict(objs[IndexOf(bds, Val(bd))])
        ELSE Dict(EmptyDict)

BdPath(template, bd) == <<"templates", template, "bds", bd>>

RemoveOperationAppend(template, bd) ==
    << [op |-> "remove", path |-> BdPath(template, "-")] >>

RemoveOperation(template, bd) ==
    << [op |-> "remove", path |-> BdPath(template, bd)] >>

PresentOperationRemoveAdd(existing, template, bd, sent) ==
    IF Truthy(existing)
    THEN << [op |-> "remove", path |-> BdPath(template, bd)],
            [op |-> "add", path |-> BdPath(template, "-"), value |-> sent] >>
    ELSE << [op |-> "add", path |-> BdPath(template, "-"), value |-> sent] >>

PresentOperationAlwaysAdd(existing, template, bd, sent) ==
    << [op |-> "add", path |-> BdPath(template, "-"), value |-> sent] >>

PayloadKeys == {"name", "displayName", "intersiteBumTraffic",
                "optimizeWanBandwidth", "l2UnknownUnicast", "l2Stretch",
                "l3MCast", "subnets", "vrfRef"}

PresentOperationAllKeys(existing, template, bd, sent) ==
    LET value == [k \in PayloadKeys \cup DOMAIN sent |->
                     IF k \in DOMAIN sent THEN sent[k] ELSE None]
    IN  IF Truthy(existing)
        THEN << [op |-> "replace", path |-> BdPath(template, bd), value |-> value] >>
        ELSE << [op |-> "add", path |-> BdPath(template, "-"), value |-> value] >>

PresentOperation(existing, template, bd, sent) ==
    IF Truthy(existing)
    THEN << [op |-> "replace", path |-> BdPath(template, bd), value |-> sent] >>
    ELSE << [op |-> "add", path |-> BdPath(template, "-"), value |-> sent] >>

DisplayNameAlways(display_name, existing, bd) ==
    IF display_name = None THEN bd ELSE display_name

DisplayName(display_name, existing, bd) ==
    IF display_name = None /\ ~Truthy(existing) THEN bd ELSE display_name

PayloadNoVrf(p, display_name, subnets, vrf_ref) ==
    [name |-> p.bd,
     displayName |-> display_name,
     intersiteBumTraffic |-> p.intersite_bum_traffic,
     optimizeWanBandwidth |-> p.optimize_wan_bandwidth,
     l2UnknownUnicast |-> p.layer2_unknown_unicast,
     l2Stretch |-> p.layer2_stretch,
     l3MCast |-> p.layer3_multicast,
     subnets |-> subnets,
     vrfRef |-> None]

Payload(p, display_name, subnets, vrf_ref) ==
    [name |-> p.bd,
     displayName |-> display_name,
     intersiteBumTraffic |-> p.intersite_bum_traffic,
     optimizeWanBandwidth |-> p.optimize_wan_bandwidth,
     l2UnknownUnicast |-> p.layer2_unknown_unicast,
     l2Stretch |-> p.layer2_stretch,
     l3MCast |-> p.layer3_multicast,
     subnets |-> subnets,
     vrfRef |-> vrf_ref]

Unwanted == {"bdRef", "vrfRef"}

SendsRequestAlways(check_mode) == TRUE

SendsRequest(check_mode) == ~check_mode

DispatchQueryAsAbsent(state) == IF state = "query" THEN "absent" ELSE state

Dispatch(state) == state

NoOutcome == [result |-> NoResult, requests |-> <<>>, operation |-> <<>>,
              before |-> <<>>]

Outcome == [result |-> result, requests |-> requests, operation |-> operation,
            before |-> before]

Init ==
    /\ remote \in Init0Remote
    /\ before = remote
    /\ pc = "exit"
    /\ params \in { p \in ParamSpace : /\ p.state = "query" /\ p.bd = None
                                        /\ Resolves(p) /\ ~p.check_mode }
    /\ schema_obj = None
    /\ mso = NewMso
    /\ payload = EmptyDict
    /\ operation = <<>>
    /\ requests = <<>>
    /\ result = NoResult
    /\ rerun = "no"
    /\ prev = NoOutcome

StartKeepsMso(p) ==
    /\ params' = p
    /\ before' = remote
    /\ schema_obj' = None
    /\ mso' = mso
    /\ payload' = EmptyDict
    /\ operation' = <<>>
    /\ requests' = <<>>
    /\ result' = NoResult
    /\ pc' = "get_schema"
    /\ UNCHANGED remote

Start(p) ==
    /\ params' = p
    /\ before' = remote
    /\ schema_obj' = None
    /\ mso' = NewMso
    /\ payload' = EmptyDict
    /\ operation' = <<>>
    /\ requests' = <<>>
    /\ result' = NoResult
    /\ pc' = "get_schema"
    /\ UNCHANGED remote

Invoke ==
    /\ pc = "exit"
    /\ \E p \in ParamSpace : Start(p)
    /\ rerun' = "no"
    /\ prev' = NoOutcome

Reinvoke ==
    /\ pc = "exit"
    /\ result # NoResult
    /\ rerun = "no"
    /\ Start(params)
    /\ rerun' = "same"
    /\ prev' = Outcome

InvokeForReal ==
    /\ pc = "exit"
    /\ result # NoResult
    /\ rerun = "no"
    /\ params.check_mode
    /\ Start([params EXCEPT !.check_mode = FALSE])
    /\ rerun' = "real"
    /\ prev' = Outcome

QueryArgs(p) ==
    [p EXCEPT !.state = "query", !.check_mode = FALSE, !.display_name = None,
              !.vrf = None, !.subnets = None]

QueryAfter ==
    /\ pc = "exit"
    /\ result # NoResult
    /\ rerun = "no"
    /\ params.state = "present"
    /\ ~result.failed
    /\ Start(QueryArgs(params))
    /\ rerun' = "query"
    /\ prev' = Outcome

Fail(msg) ==
    /\ result' = FailJson(msg)
    /\ pc' = "exit"

get_schema ==
    /\ pc = "get_schema"
    /\ LET o == GetObj(remote, params.schema)
       IN  IF o = None
           THEN Fail("SchemaNotFound") /\ UNCHANGED schema_obj
           ELSE schema_obj' = o /\ pc' = "get_template" /\ UNCHANGED result
    /\ UNCHANGED <<remote, before, params, mso, payload, operation, requests, rerun, prev>>

get_template ==
    /\ pc = "get_template"
    /\ LET so == Val(schema_obj)
       IN  IF ~InList(Names(so.templates), params.template)
           THEN Fail("TemplateNotFound") /\ UNCHANGED mso
           ELSE /\ mso' = IF Found(so, params.template, params.bd)
                        THEN [mso EXCEPT !.existing =
                                 Existing(so, params.template, params.bd)]
                        ELSE mso
                /\ pc' = Dispatch(params.state)
                /\ UNCHANGED result
    /\ UNCHANGED <<remote, before, params, schema_obj, payload, operation, requests, rerun, prev>>

QueryAllNever(bd) == FALSE

QueryAll(bd) == bd = None

query ==
    /\ pc = "query"
    /\ IF QueryAll(params.bd)
       THEN /\ mso' = [mso EXCEPT !.existing =
                          List(TemplateBds(Val(schema_obj), params.template))]
            /\ result' = ExitJson(params.state, mso')
            /\ pc' = "exit"
       ELSE IF ~Truthy(mso.existing)
       THEN Fail("ObjectNotFound") /\ UNCHANGED mso
       ELSE /\ result' = ExitJson(params.state, mso)
            /\ pc' = "exit"
            /\ UNCHANGED mso
    /\ UNCHANGED <<remote, before, params, schema_obj, payload, operation, requests, rerun, prev>>

Submit(m, send, path, data) ==
    IF ~send
    THEN /\ result' = ExitJson(params.state, m)
         /\ UNCHANGED <<remote, requests>>
    ELSE /\ requests' = Append(requests, [path |-> path, method |-> "PATCH",
                                          data |-> data])
         /\ \E up \in BOOLEAN :
              LET r == Request(remote, path, "PATCH", data)
              IN  IF up /\ r.ok
                  THEN remote' = r.doc /\ result' = ExitJson(params.state, m)
                  ELSE UNCHANGED remote /\ result' = FailJson("TransportError")

PreviousUnset(m) == m

Previous(m) == [m EXCEPT !.previous = m.existing]

ShouldRemoveAlways(existing) == TRUE

ShouldRemove(existing) == Truthy(existing)

RemovedKeepsExisting(m) == [m EXCEPT !.sent = EmptyDict]

Removed(m) == [m EXCEPT !.sent = EmptyDict, !.existing = Dict(EmptyDict)]

absent ==
    /\ pc = "absent"
    /\ LET m0 == Previous(mso)
       IN  IF ShouldRemove(m0.existing)
           THEN LET m1 == Removed(m0)
                    op == RemoveOperation(params.template, Val(params.bd))
                IN  /\ mso' = m1
                    /\ operation' = op
                    /\ Submit(m1, SendsRequest(params.check_mode),
                              SchemaPath(Val(schema_obj).id), op)
           ELSE /\ mso' = m0
                /\ UNCHANGED operation
                /\ Submit(m0, FALSE, <<>>, <<>>)
    /\ pc' = "exit"
    /\ UNCHANGED <<before, params, schema_obj, payload, rerun, prev>>

ProposedWhenSent(m) ==
    IF params.check_mode THEN m ELSE [m EXCEPT !.existing = Dict(m.proposed)]

Proposed(m) == [m EXCEPT !.existing = Dict(m.proposed)]

ReferenceFailureIgnored(vrf_ref) == FALSE

ReferenceFailed(vrf_ref) == ~vrf_ref.ok

present ==
    /\ pc = "present"
    /\ LET so == Val(schema_obj)
           m0 == Previous(mso)
           vrf_ref == MakeReference(remote, params.vrf, "vrf", so.id, params.template)
           subnets == MakeSubnets(params.subnets)
       IN  IF ReferenceFailed(vrf_ref)
           THEN /\ Fail("ReferenceNotFound")
                /\ mso' = m0
                /\ UNCHANGED <<remote, payload, operation, requests>>
           ELSE IF ~subnets.ok
           THEN /\ Fail("InvalidSubnet")
                /\ mso' = m0
                /\ UNCHANGED <<remote, payload, operation, requests>>
           ELSE
             LET display_name == DisplayName(params.display_name, m0.existing, params.bd)
                 pl == Payload(params, display_name, subnets.subnets, vrf_ref.ref)
                 s  == Sanitize(m0.existing.dict, pl, TRUE, Unwanted)
                 m1 == [m0 EXCEPT !.sent = s.sent, !.proposed = s.proposed]
                 op == PresentOperation(m1.existing, params.template,
                                        Val(params.bd), m1.sent)
                 m2 == Proposed(m1)
             IN  /\ mso' = m2
                 /\ payload' = pl
                 /\ operation' = op
                 /\ Submit(m2, SendsRequest(params.check_mode),
                           SchemaPath(so.id), op)
                 /\ pc' = "exit"
    /\ UNCHANGED <<before, params, schema_obj, rerun, prev>>

Next == \/ Invoke
        \/ Reinvoke
        \/ InvokeForReal
        \/ QueryAfter
        \/ get_schema
        \/ get_template
        \/ query
        \/ absent
        \/ present

Spec == Init /\ [][Next]_vars

TypeOK ==
    /\ pc \in {"exit", "get_schema", "get_template", "query", "absent", "present"}
    /\ params \in ParamSpace
    /\ rerun \in {"no", "same", "real", "query"}

----------------------------------------------------------------------------
(* Properties.  `before' is the remote document at the start of the        *)
(* invocation in progress (or just finished); `prev' is the outcome of the *)
(* invocation that preceded a re-run.                                      *)

Ran == pc = "exit" /\ result # NoResult

Resolved ==
    /\ GetObj(before, params.schema) # None
    /\ InList(Names(Val(GetObj(before, params.schema)).templates), params.template)

BeforeBds == TemplateBds(Val(GetObj(before, params.schema)), params.template)

ExistedBefore ==
    /\ Resolved
    /\ params.bd # None
    /\ InList(Names(BeforeBds), Val(params.bd))

BeforeObject == BeforeBds[IndexOf(Names(BeforeBds), Val(params.bd))]

NamedPath == BdPath(params.template, Val(params.bd))

AppendPath == BdPath(params.template, "-")

(* C1: when the named object exists and the sanitized desired payload      *)
(* equals the existing object, a non-dry-run state=present invocation      *)
(* succeeds and submits no patch.                                          *)
C1_PresentUnchangedSubmitsNothing ==
    ( /\ Ran
      /\ params.state = "present"
      /\ ~params.check_mode
      /\ ExistedBefore
      /\ operation # <<>>
      /\ mso.proposed = BeforeObject )
    => (requests = <<>> /\ ~result.failed)

(* C2: state=present twice in succession with identical input, the object  *)
(* initially absent, not dry-run, both submissions applied by the remote:  *)
(* the first invocation reports changed=true, the second changed=false.    *)
C2_PresentTwice ==
    ( /\ Ran
      /\ rerun = "same"
      /\ params.state = "present"
      /\ ~params.check_mode
      /\ ~prev.result.failed
      /\ ~Truthy(prev.result.previous)
      /\ ~result.failed )
    => (prev.result.changed /\ ~result.changed)

C2_Witness ==
    /\ Ran
    /\ rerun = "same"
    /\ params.state = "present"
    /\ ~params.check_mode
    /\ ~prev.result.failed
    /\ ~Truthy(prev.result.previous)
    /\ Len(prev.requests) = 1
    /\ ~result.failed
    /\ ~result.changed

(* C3: state=absent for a name that is not in the target template's list   *)
(* submits no patch, leaves the remote document unchanged and reports      *)
(* changed=false.                                                          *)
C3_AbsentMissingIsNoop ==
    ( /\ Ran
      /\ params.state = "absent"
      /\ Resolved
      /\ ~ExistedBefore )
    => ( /\ requests = <<>>
         /\ remote = before
         /\ ~result.failed
         /\ ~result.changed )

C3_Witness ==
    /\ Ran
    /\ params.state = "absent"
    /\ Resolved
    /\ ~ExistedBefore
    /\ ~params.check_mode
    /\ Len(BeforeBds) > 0
    /\ ~result.changed

(* C4: state=absent for an existing name, not dry-run, submits exactly one *)
(* patch made of a single remove at /templates/T/bds/N and, the remote     *)
(* having applied it, reports changed=true; the same invocation repeated   *)
(* immediately afterwards submits nothing and reports changed=false.       *)
C4_AbsentExistingThenRepeat ==
    /\ ( /\ Ran
         /\ params.state = "absent"
         /\ ~params.check_mode
         /\ ExistedBefore )
       => ( /\ Len(requests) = 1
            /\ requests[1].data = << [op |-> "remove", path |-> NamedPath] >>
            /\ ~result.failed => result.changed )
    /\ ( /\ Ran
         /\ rerun = "same"
         /\ params.state = "absent"
         /\ ~params.check_mode
         /\ prev.result.changed )
       => ( /\ requests = <<>>
            /\ ~result.failed
            /\ ~result.changed )

C4_Witness ==
    /\ Ran
    /\ rerun = "same"
    /\ params.state = "absent"
    /\ ~params.check_mode
    /\ prev.result.changed
    /\ Len(prev.requests) = 1
    /\ prev.requests[1].data[1].op = "remove"
    /\ requests = <<>>
    /\ ~result.changed

(* C5: an invocation with state=query submits no patch and leaves the      *)
(* remote document as it was, with or without a name, dry-run or not,      *)
(* whether it succeeds or fails.                                           *)
C5_QueryNeverMutates ==
    params.state = "query" => (requests = <<>> /\ remote = before)

C5_Witness ==
    /\ Ran
    /\ params.state = "query"
    /\ params.bd # None
    /\ ExistedBefore
    /\ ~params.check_mode
    /\ ~result.failed

(* C6: state=query with a name that is not in the target template's list   *)
(* fails with ObjectNotFound; with a name that is in the list it succeeds  *)
(* and returns that single object.                                         *)
C6_QueryByName ==
    ( /\ Ran
      /\ params.state = "query"
      /\ params.bd # None
      /\ Resolved )
    => IF ExistedBefore
       THEN ~result.failed /\ result.current = Dict(BeforeObject)
       ELSE result.failed /\ result.msg = "ObjectNotFound"

C6_Witness ==
    /\ Ran
    /\ params.state = "query"
    /\ params.bd # None
    /\ Resolved
    /\ ~ExistedBefore
    /\ Len(BeforeBds) > 0
    /\ result.msg = "ObjectNotFound"

C6_WitnessFound ==
    /\ Ran
    /\ params.state = "query"
    /\ ExistedBefore
    /\ Len(BeforeBds) = 2
    /\ BeforeBds[2]["name"] = Val(params.bd)
    /\ result.current = Dict(BeforeBds[2])

(* C7: with the dry-run flag set no invocation, in any state and for any   *)
(* document, performs a submit call, and the remote document is unchanged. *)
C7_DryRunNeverSubmits ==
    params.check_mode => (requests = <<>> /\ remote = before)

C7_Witness ==
    /\ Ran
    /\ params.check_mode
    /\ params.state \in {"absent", "present"}
    /\ operation # <<>>
    /\ result.changed

(* C8: for the same document and arguments, the result record (changed,    *)
(* previous, current) of a dry-run invocation equals that of the real      *)
(* invocation whose submission succeeds, for state=absent and              *)
(* state=present, changed or not.                                          *)
C8_DryRunEquivalence ==
    ( /\ Ran
      /\ rerun = "real"
      /\ params.state \in {"absent", "present"}
      /\ ~result.failed )
    => result = prev.result

C8_Witness ==
    /\ Ran
    /\ rerun = "real"
    /\ params.state = "present"
    /\ Len(requests) = 1
    /\ ~result.failed
    /\ result.changed
    /\ prev.requests = <<>>
    /\ remote # before

C8_WitnessUnchanged ==
    /\ Ran
    /\ rerun = "real"
    /\ params.state \in {"absent", "present"}
    /\ ~result.failed
    /\ ~result.changed

(* C9: every invocation performs at most one submit call and the patch it  *)
(* submits holds exactly one operation, on every path, failing ones too.   *)
C9_AtMostOnePatchOfOneOperation ==
    /\ Len(requests) <= 1
    /\ \A i \in DOMAIN requests : Len(requests[i].data) = 1

C9_Witness ==
    /\ Ran
    /\ Len(requests) = 1
    /\ Len(requests[1].data) = 1
    /\ requests[1].data[1].op = "replace"
    /\ result.failed

(* C10: absent object + present gives add at /templates/T/bds/- ; existing *)
(* object + present gives replace at /templates/T/bds/N ; existing object  *)
(* + absent gives remove at /templates/T/bds/N ; no add for a name in the  *)
(* fetched document, no replace or remove for a name that is not in it.    *)
C10_OperationSelection ==
    operation # <<>> =>
      /\ Len(operation) = 1
      /\ Resolved
      /\ params.state \in {"absent", "present"}
      /\ params.state = "present" /\ ~ExistedBefore =>
             operation[1].op = "add" /\ operation[1].path = AppendPath
      /\ params.state = "present" /\ ExistedBefore =>
             operation[1].op = "replace" /\ operation[1].path = NamedPath
      /\ params.state = "absent" =>
             /\ ExistedBefore
             /\ operation[1].op = "remove"
             /\ operation[1].path = NamedPath
      /\ operation[1].op = "add" => ~ExistedBefore
      /\ operation[1].op \in {"replace", "remove"} => ExistedBefore

C10_Witness ==
    /\ Ran
    /\ params.state = "present"
    /\ ExistedBefore
    /\ Len(requests) = 1
    /\ requests[1].data = operation
    /\ operation[1].op = "replace"
    /\ result.changed
    /\ ~result.failed

C10_WitnessAdd ==
    /\ Ran
    /\ params.state = "present"
    /\ Resolved
    /\ operation # <<>>
    /\ ~ExistedBefore
    /\ Len(BeforeBds) = 1
    /\ operation[1].op = "add"
    /\ Len(requests) = 1

(* C11: an unmatched schema name ends the invocation with SchemaNotFound,  *)
(* a template name missing from the schema with TemplateNotFound, an       *)
(* unresolvable state=present reference with ReferenceNotFound; in each    *)
(* case no patch is built or submitted and the remote document is          *)
(* unchanged.                                                              *)
ErrorsBeforeMutation == {"SchemaNotFound", "TemplateNotFound", "ReferenceNotFound"}

RefResolves ==
    MakeReference(before, params.vrf, "vrf", Val(GetObj(before, params.schema)).id,
                  params.template).ok

C11_ErrorsPrecedeMutation ==
    /\ result.msg \in ErrorsBeforeMutation =>
         /\ result.failed
         /\ pc = "exit"
         /\ operation = <<>>
         /\ requests = <<>>
         /\ remote = before
    /\ Ran /\ GetObj(before, params.schema) = None =>
         result.msg = "SchemaNotFound"
    /\ Ran /\ GetObj(before, params.schema) # None /\ ~Resolved =>
         result.msg = "TemplateNotFound"
    /\ Ran /\ Resolved /\ params.state = "present" /\ ~RefResolves =>
         result.msg = "ReferenceNotFound"

C11_Witness ==
    /\ Ran
    /\ Resolved
    /\ params.state = "present"
    /\ ~params.check_mode
    /\ ExistedBefore
    /\ ~RefResolves
    /\ result.msg = "ReferenceNotFound"
    /\ requests = <<>>

(* C12: after a state=present invocation on an absent name has submitted   *)
(* an add and the remote has applied it, a state=query invocation for the  *)
(* same schema, template and name succeeds and returns a value equal to    *)
(* the value submitted with the add.                                       *)
C12_AddThenQuery ==
    ( /\ Ran
      /\ rerun = "query"
      /\ prev.requests # <<>>
      /\ prev.requests[1].data[1].op = "add" )
    => ( /\ ~result.failed
         /\ result.current = Dict(prev.requests[1].data[1].value) )

C12_Witness ==
    /\ Ran
    /\ rerun = "query"
    /\ prev.requests # <<>>
    /\ prev.requests[1].data[1].op = "add"
    /\ Len(BeforeBds) = 2
    /\ ~result.failed
    /\ result.current = Dict(BeforeBds[2])

(* C13: for state=present on a name that does not exist yet, with only the *)
(* name and a VRF reference supplied, the value of the add operation is    *)
(* made of name, displayName (the name) and vrfRef, the resolved reference *)
(* of the VRF.                                                             *)
ResolvedVrf ==
    LET v == Val(params.vrf)
    IN  VrfRefString(Val(GetObj(before, params.schema)).id,
                     IF v.template # None THEN Val(v.template) ELSE params.template,
                     v.name)

C13_AddValue ==
    ( /\ operation # <<>>
      /\ operation[1].op = "add"
      /\ params.display_name = None
      /\ params.subnets = None )
    => ( /\ DOMAIN operation[1].value = {"name", "displayName", "vrfRef"}
         /\ operation[1].value["name"] = Val(params.bd)
         /\ operation[1].value["displayName"] = Val(params.bd)
         /\ operation[1].value["vrfRef"] = ResolvedVrf )

C13_Witness ==
    /\ Ran
    /\ operation # <<>>
    /\ operation[1].op = "add"
    /\ params.display_name = None
    /\ params.subnets = None
    /\ Val(params.vrf).template = Some("T2")
    /\ Len(requests) = 1
    /\ requests[1].data[1].value["vrfRef"] = VrfRefString(SchemaId, "T2", "VRF1")
    /\ ~result.failed

(* C14: object names stay unique within every template's object list of    *)
(* the remote document, whatever sequence of invocations has run.          *)
UniqueNames(l) == \A i, j \in DOMAIN l : l[i]["name"] = l[j]["name"] => i = j

C14_NamesUnique ==
    \A i \in DOMAIN remote : \A t \in DOMAIN remote[i].templates :
        UniqueNames(remote[i].templates[t]["bds"])

C14_Witness ==
    /\ Ran
    /\ rerun = "same"
    /\ params.state = "present"
    /\ ~result.failed
    /\ ~prev.result.failed
    /\ Len(prev.requests) = 1
    /\ prev.requests[1].data[1].op = "add"
    /\ Len(requests) = 1
    /\ Len(remote[1].templates[1]["bds"]) = 2

(* C15: in state=present the payload's display name is the object's name   *)
(* exactly when no display name was supplied and no object of that name    *)
(* is in the fetched document; otherwise it is what the caller supplied,   *)
(* unset included.                                                         *)
C15_DisplayNameDefault ==
    payload # EmptyDict =>
      IF params.display_name = None /\ ~ExistedBefore
      THEN payload["displayName"] = params.bd
      ELSE payload["displayName"] = params.display_name

C15_Witness ==
    /\ Ran
    /\ payload # EmptyDict
    /\ ExistedBefore
    /\ params.display_name = None
    /\ payload["displayName"] = None
    /\ Len(requests) = 1

C15_WitnessNew ==
    /\ Ran
    /\ payload # EmptyDict
    /\ ~ExistedBefore
    /\ params.display_name = None
    /\ payload["displayName"] = params.bd

C17_QueryAll ==
    ( /\ Ran
      /\ params.state = "query"
      /\ params.bd = None
      /\ Resolved )
    => ( /\ ~result.failed
         /\ result.current = List(BeforeBds) )

C17_Witness ==
    /\ Ran
    /\ rerun = "no"
    /\ params.state = "query"
    /\ params.bd = None
    /\ Resolved
    /\ BeforeBds = <<>>
    /\ ~result.failed
    /\ result.current = List(<<>>)

C17_WitnessFull ==
    /\ Ran
    /\ params.state = "query"
    /\ params.bd = None
    /\ Resolved
    /\ Len(BeforeBds) = 2
    /\ result.current.list = BeforeBds

(* C18: for state=absent and state=present the reported previous is the    *)
(* object as fetched at the start of the invocation (empty when the name   *)
(* was not there), already so when the patch is built; state=absent on an  *)
(* existing object reports an empty current.                               *)
FetchedObject == IF ExistedBefore THEN Dict(BeforeObject) ELSE Dict(EmptyDict)

C18_PreviousAndCurrent ==
    /\ operation # <<>> => mso.previous = FetchedObject
    /\ ( /\ Ran
         /\ params.state \in {"absent", "present"}
         /\ ~result.failed )
       => ( /\ result.previous = FetchedObject
            /\ params.state = "absent" => result.current = Dict(EmptyDict) )

C18_Witness ==
    /\ Ran
    /\ params.state = "absent"
    /\ ExistedBefore
    /\ Len(requests) = 1
    /\ ~result.failed
    /\ result.previous = Dict(BeforeObject)
    /\ result.current = Dict(EmptyDict)
    /\ remote # before

====
